---- MODULE Spec2Model ----
(***************************************************************************)
(* Milo: file-system router for Deno.  Model of createRoutes (route-table  *)
(* construction), route (the request dispatcher with its LRU resolution    *)
(* cache and WebSocket event fan-out) and Milo.run.                        *)
(*                                                                         *)
(* Strings are sequences of tokens.  A token is either one of the          *)
(* punctuation characters the code inspects ("/", ".", "[", "]", ":", "?", *)
(* "+") or a maximal run of other characters, so that Path.parse, the      *)
(* filename regex, the duplicate-slash clean-up and URLPattern matching    *)
(* are computed on the text as the code computes them.                     *)
(***************************************************************************)
EXTENDS Integers, Sequences, FiniteSets, TLC

(***************************************************************************)
(* Bounds of the model.                                                    *)
(***************************************************************************)
\* requests dispatched in one run
MaxRequests == 3
\* transport events signalled on upgraded connections in one run
MaxSignals == 2
\* directories nested below the route root
MaxDepth == 2

\* new LruCache(1000)
CacheSize == 1000

(***************************************************************************)
(* Text helpers (@std/path, String.prototype.replace, RegExp).             *)
(***************************************************************************)
\* tokens that are not made of \w characters only
NonWord == {"/", ".", "[", "]", ":", "?", "+", "a-b", "x=1", "localhost:3000", "http:"}

IsWord(t) == t \notin NonWord

LastIndexOf(s, t) ==
    LET hits == {i \in 1..Len(s) : s[i] = t}
    IN  IF hits = {} THEN 0 ELSE CHOOSE i \in hits : \A j \in hits : j <= i

\* routePath.replace(/\/+/g, "/")
RECURSIVE CollapseSlashes(_)
CollapseSlashes(s) ==
    IF Len(s) < 2 THEN s
    ELSE IF s[1] = "/" /\ s[2] = "/" THEN CollapseSlashes(Tail(s))
    ELSE <<s[1]>> \o CollapseSlashes(Tail(s))

\* trailing separators are not part of the last path component
RECURSIVE StripTrailingSlashes(_)
StripTrailingSlashes(s) ==
    IF Len(s) > 1 /\ s[Len(s)] = "/"
    THEN StripTrailingSlashes(SubSeq(s, 1, Len(s) - 1))
    ELSE s

\* Path.parse(p).base (posix)
PathBase(p) ==
    LET q == StripTrailingSlashes(p)
        k == LastIndexOf(q, "/")
    IN  SubSeq(q, k + 1, Len(q))

\* Path.parse(p).name: the base without its extension; the extension starts
\* at the last "." of the base unless that is its first character
PathName(p) ==
    LET b == PathBase(p)
        d == LastIndexOf(b, ".")
    IN  IF d <= 1 THEN b ELSE SubSeq(b, 1, d - 1)

\* Path.join(a, b): empty parts are dropped, the rest joined and normalized
PathJoin(a, b) ==
    IF a = <<>> THEN b
    ELSE IF b = <<>> THEN a
    ELSE CollapseSlashes(a \o <<"/">> \o b)

\* dirEntry.name.match(/\[(\w+)\]\.(ts|js)$/): the capture group, or <<>>
ParamMatch(name) ==
    LET n == Len(name)
    IN  IF /\ n >= 5
           /\ name[n] \in {"ts", "js"}
           /\ name[n - 1] = "."
           /\ name[n - 2] = "]"
           /\ IsWord(name[n - 3])
           /\ name[n - 4] = "["
        THEN <<name[n - 3]>>
        ELSE <<>>

(***************************************************************************)
(* URL and URLPattern.  request.url is "http://localhost:3000" followed by *)
(* the pathname and an optional "?" query.                                 *)
(***************************************************************************)
Origin == <<"http:", "/", "/", "localhost:3000">>

\* the pathname component of a URL: after the authority, before the query
UrlPathname(url) ==
    LET q == {i \in 1..Len(url) : url[i] = "?"}
        e == IF q = {} THEN Len(url) ELSE (CHOOSE i \in q : \A j \in q : i <= j) - 1
    IN  SubSeq(url, Len(Origin) + 1, e)

\* the parts of s between its "/" tokens (s.split("/"))
RECURSIVE Split(_)
Split(s) ==
    LET k == {i \in 1..Len(s) : s[i] = "/"}
    IN  IF k = {} THEN <<s>>
        ELSE LET f == CHOOSE i \in k : \A j \in k : i <= j
             IN  <<SubSeq(s, 1, f - 1)>> \o Split(SubSeq(s, f + 1, Len(s)))

\* a ":name" part of a pattern is a named group matching one non-empty segment
IsGroup(part) == Len(part) = 2 /\ part[1] = ":" /\ IsWord(part[2])

PartMatches(part, seg) == IF IsGroup(part) THEN seg # <<>> ELSE part = seg

\* new URLPattern({ pathname }).exec(url): every component but the pathname
\* is a wildcard; the result is null (matched = FALSE) or carries
\* pathname.groups
URLPatternExec(pathname, url) ==
    LET ps == Split(pathname)
        us == Split(UrlPathname(url))
        ok == /\ Len(ps) = Len(us)
              /\ \A i \in 1..Len(ps) : PartMatches(ps[i], us[i])
        names == {ps[i][2] : i \in {j \in 1..Len(ps) : IsGroup(ps[j])}}
    IN  IF ok
        THEN [matched |-> TRUE,
              groups |-> [n \in names |->
                            us[CHOOSE i \in 1..Len(ps) : ps[i] = <<":", n>>]]]
        ELSE [matched |-> FALSE, groups |-> <<>>]

(***************************************************************************)
(* createRoutes.  A directory entry is a file                              *)
(*   [isDirectory |-> FALSE, name, loads, exports]                         *)
(* (loads: import() of the module resolves; exports: the keys of the       *)
(* module namespace, every export being a callable as the Handler and      *)
(* WsMap types require) or a directory                                     *)
(*   [isDirectory |-> TRUE, name, entries]                                 *)
(* whose entries are listed in the order Deno.readDir yields them.         *)
(***************************************************************************)
MethodType == <<"GET", "POST", "PUT", "DELETE", "PATCH">>

MethodLoop == <<"GET", "POST", "PUT", "DELETE", "PATCH", "default">>

Range(s) == {s[i] : i \in 1..Len(s)}

File(name, exports) ==
    [isDirectory |-> FALSE, name |-> name, loads |-> TRUE, exports |-> exports]

Broken(name) ==
    [isDirectory |-> FALSE, name |-> name, loads |-> FALSE, exports |-> {}]

Dir(name, entries) ==
    [isDirectory |-> TRUE, name |-> name, entries |-> entries]

\* the route path of a module file (lines 66-83)
RoutePath(name, basePath) ==
    LET paramMatch == ParamMatch(name)
        routePath ==
            IF name = <<"index", ".", "ts">>
            THEN IF basePath = <<>> THEN <<"/">> ELSE <<"/">> \o basePath
            ELSE IF paramMatch # <<>>
            THEN IF basePath = <<>>
                 THEN <<"/", ":">> \o paramMatch
                 ELSE <<"/">> \o basePath \o <<"/", ":">> \o paramMatch
            ELSE <<"/">> \o basePath \o <<"/">> \o PathName(name)
    IN  CollapseSlashes(routePath)

\* the base path handed to the recursive call for a sub-directory (line 54)
NestedBasePath(path, basePath, name) ==
    PathJoin(basePath, PathName(PathJoin(path, name)))

\* the routes one module contributes (lines 85-102)
ModuleRoutes(modulePath, routePath, exports) ==
    LET present == SelectSeq(MethodLoop, LAMBDA m : m \in exports)
    IN  [i \in 1..Len(present) |->
            [pattern |-> routePath,
             method |-> IF present[i] = "default" THEN "GET" ELSE present[i],
             handler |-> [module |-> modulePath, export |-> present[i]]]]

\* variant: only a default export makes a route module
HasDefaultExport(exports) == "default" \in exports

\* the test of lines 62-65
IsRouteModule(exports) ==
    \/ "default" \in exports
    \/ \E i \in 1..Len(MethodType) : MethodType[i] \in exports

\* an import() that rejects is not caught: createRoutes rejects (ok = FALSE)
\* and nothing it had collected is returned
Rejected == [ok |-> FALSE, res |-> <<>>, wsll |-> <<>>, logged |-> <<>>]

RECURSIVE createRoutes(_, _, _)
RECURSIVE ReadDir(_, _, _, _, _)

\* one iteration of the for-await loop (lines 50-113)
DirEntry(dirEntry, path, basePath, acc) ==
    IF dirEntry.isDirectory
    THEN LET nested == createRoutes(dirEntry.entries,
                                    PathJoin(path, dirEntry.name),
                                    NestedBasePath(path, basePath, dirEntry.name))
         IN  IF ~nested.ok THEN Rejected
             ELSE [acc EXCEPT !.res = acc.res \o nested.res,
                              !.logged = acc.logged \o nested.logged]
    ELSE LET modulePath == PathJoin(path, dirEntry.name)
         IN  IF ~dirEntry.loads THEN Rejected
             ELSE IF IsRouteModule(dirEntry.exports)
             THEN [acc EXCEPT !.res = acc.res \o
                       ModuleRoutes(modulePath,
                                    RoutePath(dirEntry.name, basePath),
                                    dirEntry.exports)]
             ELSE IF dirEntry.name = <<"+", "ws", ".", "ts">>
             THEN [acc EXCEPT !.wsll =
                       [evt \in DOMAIN acc.wsll \cup dirEntry.exports |->
                           IF evt \in dirEntry.exports
                           THEN [module |-> modulePath, export |-> evt]
                           ELSE acc.wsll[evt]]]
             ELSE [acc EXCEPT !.logged = acc.logged \o <<modulePath>>]

ReadDir(entries, i, path, basePath, acc) ==
    IF i > Len(entries) \/ ~acc.ok THEN acc
    ELSE ReadDir(entries, i + 1, path, basePath,
                 DirEntry(entries[i], path, basePath, acc))

\* createRoutes(path, basePath) over the entries readDir(path) yields
createRoutes(entries, path, basePath) ==
    ReadDir(entries, 1, path, basePath,
            [ok |-> TRUE, res |-> <<>>, wsll |-> <<>>, logged |-> <<>>])

(***************************************************************************)
(* LruCache<[string, string], [Route, params]> (@std/cache): a Map whose   *)
(* insertion order is the recency order, least recently used first.  The   *)
(* cache is a sequence of [key, value] entries.  A key is the array        *)
(* [url, method]; Map compares keys with SameValueZero, which for arrays   *)
(* is object identity, so a key carries the identity (ref) of its array.   *)
(***************************************************************************)
\* the array literal [url, request.method], allocated as object number ref
Key(ref, request) == [ref |-> ref, url |-> request.url, method |-> request.method]

\* variant: two keys are the same when their urls are
SameUrl(a, b) == a.url = b.url

SameValueZero(a, b) == a.ref = b.ref

MapHas(m, key) == \E i \in 1..Len(m) : SameValueZero(m[i].key, key)

MapGet(m, key) == m[CHOOSE i \in 1..Len(m) : SameValueZero(m[i].key, key)].value

\* variant: every entry stored for the same url is deleted
MapDeleteSameUrl(m, key) == SelectSeq(m, LAMBDA e : ~SameUrl(e.key, key))

MapDelete(m, key) == SelectSeq(m, LAMBDA e : ~SameValueZero(e.key, key))

\* delete then re-add, so that the most recently used entry is last
setMostRecentlyUsed(m, key, value) ==
    Append(MapDelete(m, key), [key |-> key, value |-> value])

\* variant: the entry dropped is the one used last
pruneMostRecent(m, size) == IF Len(m) > size THEN SubSeq(m, 1, size) ELSE m

\* this.delete(this.keys().next().value) when over maxSize
pruneToMaxSize(m, size) == IF Len(m) > size THEN Tail(m) ELSE m

LruHas(m, key) ==
    IF MapHas(m, key)
    THEN [exists |-> TRUE, cache |-> setMostRecentlyUsed(m, key, MapGet(m, key))]
    ELSE [exists |-> FALSE, cache |-> m]

LruGet(m, key) ==
    IF MapHas(m, key)
    THEN [defined |-> TRUE, value |-> MapGet(m, key),
          cache |-> setMostRecentlyUsed(m, key, MapGet(m, key))]
    ELSE [defined |-> FALSE, value |-> <<>>, cache |-> m]

LruSet(m, key, value, size) ==
    pruneToMaxSize(setMostRecentlyUsed(m, key, value), size)

(***************************************************************************)
(* Resolution of a request against the route list (route, lines 163-184).  *)
(***************************************************************************)
\* the loop of lines 166-171: every [route, params] whose pattern and method
\* fit, in scan order
MatchedRoutes(routes, request) ==
    LET fits(i) == /\ URLPatternExec(routes[i].pattern, request.url).matched
                   /\ request.method = routes[i].method
        RECURSIVE Scan(_)
        Scan(i) ==
            IF i > Len(routes) THEN <<>>
            ELSE (IF fits(i)
                  THEN <<[route |-> routes[i],
                          params |-> URLPatternExec(routes[i].pattern,
                                                    request.url).groups]>>
                  ELSE <<>>) \o Scan(i + 1)
    IN  Scan(1)

\* the loop of lines 177-182: the index in matchedRoutes of bestMatch, a
\* match whose pattern has the base of the request url; 0 for null
BestMatch(matchedRoutes, url) ==
    LET base == PathBase(url)
        same == {i \in 1..Len(matchedRoutes) :
                    PathBase(matchedRoutes[i].route.pattern) = base}
    IN  IF same = {} THEN 0 ELSE CHOOSE i \in same : \A j \in same : j <= i

\* variant: without a best match the last match is used
RouteToUseLast(matchedRoutes, url) ==
    LET b == BestMatch(matchedRoutes, url)
    IN  IF b = 0 THEN matchedRoutes[Len(matchedRoutes)] ELSE matchedRoutes[b]

\* bestMatch ?? matchedRoutes[0]
RouteToUse(matchedRoutes, url) ==
    LET b == BestMatch(matchedRoutes, url)
    IN  IF b = 0 THEN matchedRoutes[1] ELSE matchedRoutes[b]

(***************************************************************************)
(* Handlers are opaque: an invocation is recorded with its arguments and   *)
(* its result is the value that invocation produced.                       *)
(***************************************************************************)
\* () => new Response("404 not found")
defaultHandler == [module |-> <<>>, export |-> "defaultHandler"]

Invocation(handler, args) == [handler |-> handler, args |-> args]

\* what a route handler does when called: it returns a Response, it throws,
\* or it returns a promise that the handler settles later, if ever
Outcomes == {"response", "throws", "promise"}

\* what the caller of an invocation gets from it
ResultOf(invocation, outcome) ==
    CASE outcome = "response" -> [response |-> invocation]
      [] outcome = "throws" -> [thrown |-> invocation]
      [] outcome = "promise" -> [promise |-> invocation, state |-> "pending"]

(***************************************************************************)
(* State.                                                                  *)
(***************************************************************************)
VARIABLES
    tree,        \* the entries of options.fsRouteDir, as readDir lists them
    phase,       \* "new", then "serving" or "rejected" (run's promise)
    Routes,      \* the route list handed to route()
    Ws,          \* the event map handed to route()
    logged,      \* module paths reported with logger.error
    maxSize,     \* capacity of routeCache
    routeCache,  \* the LruCache, least recently used entry first
    heap,        \* number of key arrays allocated so far
    trace,       \* one record per request handled by the dispatcher
    sockets,     \* upgraded connections with the listeners attached to them
    signals,     \* one record per transport event signalled on a socket
    arrived      \* requests and events the runtime holds for its next turns

vars == <<tree, phase, Routes, Ws, logged, maxSize, routeCache, heap, trace,
          sockets, signals, arrived>>

\* fsRouteDir: "/api"
fsRouteDir == <<"/", "api">>

\* Milo.run (lines 227-233): build the tables, then serve
run ==
    /\ phase = "new"
    /\ LET built == createRoutes(tree, fsRouteDir, <<>>)
       IN  /\ phase' = IF built.ok THEN "serving" ELSE "rejected"
           /\ Routes' = built.res
           /\ Ws' = built.wsll
           /\ logged' = built.logged
    /\ UNCHANGED <<tree, maxSize, routeCache, heap, trace, sockets, signals,
                   arrived>>

\* what the dispatcher did for one request: whether it upgraded, how often it
\* read the cache, whether the read hit, whether it scanned the route list,
\* what it resolved the request to, the handlers it invoked, what it returned
Handled(request, upgraded, cacheReads, hit, scanned, resolution, calls, result) ==
    [request |-> request, upgraded |-> upgraded, cacheReads |-> cacheReads,
     hit |-> hit, scanned |-> scanned, resolution |-> resolution,
     calls |-> calls, result |-> result]

NoResolution == [kind |-> "none"]

Resolved(match) == [kind |-> "route", route |-> match.route, params |-> match.params]

\* the effect of one call of the closure on the shared state
Outcome(cache, hp, socks, handled) ==
    [routeCache |-> cache, heap |-> hp, sockets |-> socks, handled |-> handled]

\* variant: only GET requests are taken as upgrades
IsUpgradeOfGet(request) == request.upgrade = "websocket" /\ request.method = "GET"

\* request.headers.get("upgrade") === "websocket" (line 142)
IsUpgrade(request) == request.upgrade = "websocket"

\* lines 143-154: every entry of wsall becomes a listener of the new socket
Upgrade(request, wsall, cache, hp, socks) ==
    Outcome(cache, hp,
            Append(socks, [listeners |->
                              {[type |-> key, val |-> wsall[key]] : key \in DOMAIN wsall}]),
            Handled(request, TRUE, 0, FALSE, FALSE, NoResolution, <<>>,
                    [upgradeResponse |-> Len(socks) + 1]))

\* lines 159-160: the entry is read with a second key array; destructuring
\* an undefined entry throws
Cached(request, cache, hp, socks, outcome) ==
    LET got == LruGet(cache, Key(hp + 1, request))
        call == Invocation(got.value.route.handler, <<request, got.value.params>>)
    IN  Outcome(got.cache, hp + 1, socks,
                IF got.defined
                THEN Handled(request, FALSE, 2, TRUE, FALSE, Resolved(got.value),
                             <<call>>, ResultOf(call, outcome))
                ELSE Handled(request, FALSE, 2, TRUE, FALSE, NoResolution,
                             <<>>, [thrown |-> "TypeError"]))

\* variant: after the route handler the code falls through to line 193
MatchedFallingThrough(request, matchedRoutes, cache, size, hp, socks, outcome) ==
    LET use == RouteToUse(matchedRoutes, request.url)
        call == Invocation(use.route.handler, <<request, use.params>>)
        fallback == Invocation(defaultHandler, <<request>>)
    IN  Outcome(LruSet(cache, Key(hp + 1, request), use, size), hp + 1, socks,
                Handled(request, FALSE, 1, FALSE, TRUE, Resolved(use),
                        <<call, fallback>>, ResultOf(fallback, "response")))

\* variant: a handler that throws is caught and the default handler answers
MatchedCatching(request, matchedRoutes, cache, size, hp, socks, outcome) ==
    LET use == RouteToUse(matchedRoutes, request.url)
        call == Invocation(use.route.handler, <<request, use.params>>)
        fallback == Invocation(defaultHandler, <<request>>)
    IN  Outcome(LruSet(cache, Key(hp + 1, request), use, size), hp + 1, socks,
                IF outcome = "throws"
                THEN Handled(request, FALSE, 1, FALSE, TRUE, Resolved(use),
                             <<call, fallback>>, ResultOf(fallback, "response"))
                ELSE Handled(request, FALSE, 1, FALSE, TRUE, Resolved(use),
                             <<call>>, ResultOf(call, outcome)))

\* variant: the entry is stored once the handler has returned a Response
MatchedStoringAfter(request, matchedRoutes, cache, size, hp, socks, outcome) ==
    LET use == RouteToUse(matchedRoutes, request.url)
        call == Invocation(use.route.handler, <<request, use.params>>)
    IN  Outcome(IF outcome = "response"
                THEN LruSet(cache, Key(hp + 1, request), use, size)
                ELSE cache,
                hp + 1, socks,
                Handled(request, FALSE, 1, FALSE, TRUE, Resolved(use),
                        <<call>>, ResultOf(call, outcome)))

\* lines 173-190: tie-break, cache, invoke
Matched(request, matchedRoutes, cache, size, hp, socks, outcome) ==
    LET use == RouteToUse(matchedRoutes, request.url)
        call == Invocation(use.route.handler, <<request, use.params>>)
    IN  Outcome(LruSet(cache, Key(hp + 1, request), use, size), hp + 1, socks,
                Handled(request, FALSE, 1, FALSE, TRUE, Resolved(use),
                        <<call>>, ResultOf(call, outcome)))

\* variant: the default handler is cached like a route
UnmatchedCached(request, cache, size, hp, socks) ==
    LET call == Invocation(defaultHandler, <<request>>)
        entry == [route |-> [pattern |-> <<>>, method |-> request.method,
                             handler |-> defaultHandler],
                  params |-> <<>>]
    IN  Outcome(LruSet(cache, Key(hp + 1, request), entry, size), hp + 1, socks,
                Handled(request, FALSE, 1, FALSE, TRUE, [kind |-> "default"],
                        <<call>>, ResultOf(call, "response")))

\* line 193: no route matches
Unmatched(request, cache, size, hp, socks) ==
    LET call == Invocation(defaultHandler, <<request>>)
    IN  Outcome(cache, hp, socks,
                Handled(request, FALSE, 1, FALSE, TRUE, [kind |-> "default"],
                        <<call>>, ResultOf(call, "response")))

\* the closure returned by route(routes, wsall, defaultHandler), lines 137-194
Closure(request, routes, wsall, cache, size, hp, socks, outcome) ==
    IF IsUpgrade(request)
    THEN Upgrade(request, wsall, cache, hp, socks)
    ELSE LET has == LruHas(cache, Key(hp + 1, request))
             matchedRoutes == MatchedRoutes(routes, request)
         IN  IF has.exists
             THEN Cached(request, has.cache, hp + 1, socks, outcome)
             ELSE IF Len(matchedRoutes) > 0
             THEN Matched(request, matchedRoutes, has.cache, size, hp + 1, socks,
                          outcome)
             ELSE Unmatched(request, has.cache, size, hp + 1, socks)

\* variant: the closure awaits the handlers it has started
AwaitedPending(tr) ==
    {i \in 1..Len(tr) : /\ "state" \in DOMAIN tr[i].result
                          /\ tr[i].result.state = "pending"}

\* the invocations the closure waits for before it takes another request:
\* it is not async and returns the handler's value as it is (lines 137, 160,
\* 189, 193), so none
Awaited(tr) == {}

\* one call of the closure: the handler behaves as outcome says
Call(request, outcome) ==
    /\ phase = "serving"
    /\ Len(trace) < MaxRequests
    /\ Awaited(trace) = {}
    /\ LET out == Closure(request, Routes, Ws, routeCache, maxSize, heap, sockets,
                          outcome)
       IN  /\ routeCache' = out.routeCache
           /\ heap' = out.heap
           /\ sockets' = out.sockets
           /\ trace' = Append(trace, out.handled)
    /\ UNCHANGED <<tree, phase, Routes, Ws, logged, maxSize, signals>>

\* Deno.serve calls the closure for a request
route(request, outcome) ==
    /\ Call(request, outcome)
    /\ UNCHANGED arrived

\* a promise returned by a route handler settles
settle(i, how) ==
    /\ i \in 1..Len(trace)
    /\ "state" \in DOMAIN trace[i].result
    /\ trace[i].result.state = "pending"
    /\ trace' = [trace EXCEPT ![i].result.state = how]
    /\ UNCHANGED <<tree, phase, Routes, Ws, logged, maxSize, routeCache, heap,
                   sockets, signals, arrived>>

\* variant: the event is never handed on
ListenerWithoutEvent(listener, socket, event) ==
    Invocation(listener.val, <<socket>>)

\* the listener of lines 145-151, run for one event the transport dispatches
Listener(listener, socket, event) ==
    IF event.isMessageEvent
    THEN Invocation(listener.val, <<socket, event>>)
    ELSE Invocation(listener.val, <<socket>>)

\* the listeners of a socket run for one event
Dispatch(socket, event) ==
    /\ socket \in 1..Len(sockets)
    /\ Len(signals) < MaxSignals
    /\ Awaited(trace) = {}
    /\ signals' = Append(signals,
           [socket |-> socket, event |-> event,
            calls |-> {Listener(l, socket, event) :
                          l \in {x \in sockets[socket].listeners : x.type = event.type}}])
    /\ UNCHANGED <<tree, phase, Routes, Ws, logged, maxSize, routeCache, heap,
                   trace, sockets>>

\* the transport signals an event on an upgraded connection
dispatchEvent(socket, event) ==
    /\ Dispatch(socket, event)
    /\ UNCHANGED arrived

\* the runtime accepts a request and holds it until the closure is called
accept(request) ==
    /\ phase = "serving"
    /\ Len(trace) + Len(SelectSeq(arrived, LAMBDA a : a.kind = "request"))
          < MaxRequests
    /\ arrived' = Append(arrived, [kind |-> "request", request |-> request])
    /\ UNCHANGED <<tree, phase, Routes, Ws, logged, maxSize, routeCache, heap,
                   trace, sockets, signals>>

\* the transport receives an event for a connection and holds it until the
\* listeners run
receive(socket, event) ==
    /\ socket \in 1..Len(sockets)
    /\ Len(signals) + Len(SelectSeq(arrived, LAMBDA a : a.kind = "event"))
          < MaxSignals
    /\ arrived' = Append(arrived,
                         [kind |-> "event", socket |-> socket, event |-> event])
    /\ UNCHANGED <<tree, phase, Routes, Ws, logged, maxSize, routeCache, heap,
                   trace, sockets, signals>>

\* a turn of the event loop: the oldest held request goes to the closure
serve(outcome) ==
    /\ arrived # <<>>
    /\ Head(arrived).kind = "request"
    /\ Call(Head(arrived).request, outcome)
    /\ arrived' = Tail(arrived)

\* a turn of the event loop: the oldest held event goes to its listeners
deliver ==
    /\ arrived # <<>>
    /\ Head(arrived).kind = "event"
    /\ Dispatch(Head(arrived).socket, Head(arrived).event)
    /\ arrived' = Tail(arrived)

(***************************************************************************)
(* Inputs: directory trees, requests and transport events.                 *)
(***************************************************************************)
IndexTs == <<"index", ".", "ts">>
IdTs == <<"[", "id", "]", ".", "ts">>
SlugTs == <<"[", "slug", "]", ".", "ts">>
PostTs == <<"post", ".", "ts">>
InfoTs == <<"info", ".", "ts">>
WsTs == <<"+", "ws", ".", "ts">>

\* tests/api/+ws.ts
WsModule == File(WsTs, {"open", "close", "message"})

\* every sequence of one or two of the given files with different names
FileLists(files) ==
    {<<f>> : f \in files} \cup
    {<<pair[1], pair[2]>> :
        pair \in {q \in files \X files : q[1].name # q[2].name}}

\* entries nested in the chain of directories dirs, outermost first
RECURSIVE Nest(_, _)
Nest(dirs, entries) ==
    IF dirs = <<>> THEN entries
    ELSE <<Dir(Head(dirs), Nest(Tail(dirs), entries))>>

\* every sequence over S of length at most n
RECURSIVE SeqsUpTo(_, _)
SeqsUpTo(S, n) ==
    IF n = 0 THEN {<<>>}
    ELSE LET shorter == SeqsUpTo(S, n - 1)
         IN  shorter \cup {Append(q, x) : q \in shorter, x \in S}

\* the modules of api/blog in the dispatcher runs: alone, and in pairs
BlogFiles ==
    { File(IdTs, {"GET"}), File(IdTs, {"POST"}), File(SlugTs, {"GET"}),
      File(PostTs, {"default"}), File(PostTs, {"GET", "default"}),
      File(IndexTs, {"default"}) }

PairedFiles ==
    { File(IdTs, {"GET"}), File(IdTs, {"POST"}), File(SlugTs, {"GET"}),
      File(PostTs, {"default"}) }

DispatchTrees ==
    {<<Dir(<<"api">>, <<Dir(<<"blog">>, files)>>), WsModule>> :
        files \in FileLists(PairedFiles) \cup {<<f>> : f \in BlogFiles}}

Url(pathname, query) == Origin \o pathname \o query

NoQuery == <<>>

Request(method, pathname, query, upgrade) ==
    [method |-> method, url |-> Url(pathname, query), upgrade |-> upgrade]

BlogPath(last) == <<"/", "api", "/", "blog", "/">> \o last

\* requests of the dispatcher runs; upgrade is the value of the upgrade
\* header, "null" when the request has none
Requests ==
    {Request("GET", p, NoQuery, "null") :
        p \in {BlogPath(<<"42">>), BlogPath(<<"post">>), <<"/", "api", "/", "blog">>}}
    \cup {Request("POST", BlogPath(<<"42">>), NoQuery, "null"),
          Request("GET", BlogPath(<<"post">>), <<"?", "x=1">>, "null"),
          Request("GET", BlogPath(<<"post">>), NoQuery, "h2c"),
          Request("GET", BlogPath(<<"post">>), NoQuery, "websocket"),
          Request("POST", BlogPath(<<"42">>), NoQuery, "websocket")}

\* capacities of routeCache explored: the program's, and the smallest
CacheSizes == {1, CacheSize}

InitWith(trees, sizes) ==
    /\ tree \in trees
    /\ phase = "new"
    /\ Routes = <<>>
    /\ Ws = <<>>
    /\ logged = <<>>
    /\ maxSize \in sizes
    /\ routeCache = <<>>
    /\ heap = 0
    /\ trace = <<>>
    /\ sockets = <<>>
    /\ signals = <<>>
    /\ arrived = <<>>

(***************************************************************************)
(* Spec: the dispatcher over a served route table.                         *)
(***************************************************************************)
Init == InitWith(DispatchTrees, CacheSizes)

Next ==
    \/ run
    \/ \E request \in Requests : route(request, "response")

Spec == Init /\ [][Next]_vars

(***************************************************************************)
(* SpecMethods: one module api/blog/[id].ts with every set of exports.     *)
(***************************************************************************)
ExportNames == Range(MethodLoop)

MethodTrees ==
    {<<Dir(<<"api">>, <<Dir(<<"blog">>, <<File(IdTs, exports)>>)>>)>> :
        exports \in SUBSET ExportNames}

MethodRequests ==
    {Request(m, BlogPath(<<"42">>), NoQuery, "null") :
        m \in Range(MethodType) \cup {"HEAD"}}
    \cup {Request("GET", <<"/", "api", "/", "blog">>, NoQuery, "null")}

InitMethods == InitWith(MethodTrees, {CacheSize})

NextMethods ==
    \/ run
    \/ \E request \in MethodRequests : route(request, "response")

SpecMethods == InitMethods /\ [][NextMethods]_vars

(***************************************************************************)
(* SpecWs: upgraded connections and the events signalled on them.          *)
(***************************************************************************)
WsTrees ==
    {<<File(WsTs, exports), Dir(<<"api">>, <<File(IndexTs, {"default"})>>)>> :
        exports \in {{"open", "close", "message"}, {"message"}, {"open", "error"}}}
    \cup {<<File(IndexTs, {"default"})>>}

WsRequests ==
    {Request("GET", <<"/">>, NoQuery, "websocket"),
     Request("GET", <<"/", "api">>, NoQuery, "null")}

\* what the transport dispatches on a socket: isMessageEvent tells whether
\* the event is an instance of MessageEvent, data is its payload
Event(type, data) ==
    [type |-> type, isMessageEvent |-> type = "message", data |-> data]

Events ==
    {Event("open", ""), Event("message", "ping"), Event("message", "hello"),
     Event("close", "")}

InitWs == InitWith(WsTrees, {CacheSize})

NextWs ==
    \/ run
    \/ \E request \in WsRequests : route(request, "response")
    \/ \E socket \in 1..Len(sockets), event \in Events : dispatchEvent(socket, event)

SpecWs == InitWs /\ [][NextWs]_vars

(***************************************************************************)
(* SpecBuild: route-table construction over directory trees.               *)
(***************************************************************************)
DirNames == {<<"api">>, <<"blog">>, <<"v1", ".", "0">>}

BuildFiles ==
    { File(IndexTs, {"default"}), File(IdTs, {"POST"}), File(InfoTs, {"default"}),
      Broken(PostTs), File(<<"notes", ".", "ts">>, {"helper"}), WsModule,
      File(WsTs, {"open", "default"}) }

RootFiles == {Broken(<<"bad", ".", "ts">>), File(<<"about", ".", "ts">>, {"default"})}

\* the contents of api/ in the README's folder structure, fsRouteDir being
\* the api directory
ReadmeTree ==
    <<Dir(<<"blog">>, <<File(IdTs, {"default"}), File(PostTs, {"default"}),
                        File(IndexTs, {"default"})>>),
      File(InfoTs, {"default"}), File(IndexTs, {"default"}), WsModule>>

\* an event file in the route root and one in a sub-directory, the
\* sub-directory listed after the root's event file or before it
NestedWsTrees ==
    LET nested == Dir(<<"api">>, <<File(WsTs, {"error", "message"})>>)
    IN  {<<WsModule, nested>>, <<nested, WsModule>>}

\* a chain of directories holding a list of files, alone or with one more
\* file of the root listed before or after it; and the README's tree
BuildTrees ==
    LET nests == {Nest(dirs, files) :
                     dirs \in SeqsUpTo(DirNames, MaxDepth),
                     files \in FileLists(BuildFiles)}
    IN  nests
        \cup {<<f>> \o n : f \in RootFiles, n \in nests}
        \cup {n \o <<f>> : f \in RootFiles, n \in nests}
        \cup {ReadmeTree}
        \cup NestedWsTrees

InitBuild == InitWith(BuildTrees, {CacheSize})

SpecBuild == InitBuild /\ [][run]_vars

(***************************************************************************)
(* SpecHandlers: route handlers that return, throw or suspend.             *)
(***************************************************************************)
HandlerTrees ==
    {<<Dir(<<"api">>, <<Dir(<<"blog">>, files)>>)>> :
        files \in {<<File(IdTs, {"GET"}), File(PostTs, {"GET"})>>,
                   <<File(PostTs, {"GET"}), File(IdTs, {"GET"})>>}}

HandlerRequests ==
    {Request("GET", p, NoQuery, "null") :
        p \in {BlogPath(<<"42">>), BlogPath(<<"post">>), <<"/", "api", "/", "blog">>}}

\* capacities explored with suspended handlers
HandlerCacheSizes == {1, 2, CacheSize}

InitHandlers == InitWith(HandlerTrees, HandlerCacheSizes)

NextHandlers ==
    \/ run
    \/ \E request \in HandlerRequests, outcome \in Outcomes : route(request, outcome)
    \/ \E i \in 1..Len(trace), how \in {"fulfilled", "rejected"} : settle(i, how)

SpecHandlers == InitHandlers /\ [][NextHandlers]_vars

(***************************************************************************)
(* SpecLoop: requests and events held by the runtime and taken in turns,   *)
(* with handlers that may stay suspended for ever.                         *)
(***************************************************************************)
LoopTrees ==
    {<<Dir(<<"api">>, <<Dir(<<"blog">>, <<File(IdTs, {"GET"})>>)>>), WsModule>>}

LoopRequests ==
    {Request("GET", BlogPath(<<"42">>), NoQuery, "null"),
     Request("GET", BlogPath(<<"42">>), NoQuery, "websocket")}

LoopEvents == {Event("open", ""), Event("message", "ping")}

InitLoop == InitWith(LoopTrees, {CacheSize})

NextLoop ==
    \/ run
    \/ \E request \in LoopRequests : accept(request)
    \/ \E socket \in 1..Len(sockets), event \in LoopEvents : receive(socket, event)
    \/ \E outcome \in Outcomes : serve(outcome)
    \/ deliver
    \/ \E i \in 1..Len(trace), how \in {"fulfilled", "rejected"} : settle(i, how)

\* what serve and deliver do to the held items: the oldest one is taken,
\* which they can do whenever one is held and the closure awaits nothing
turn ==
    /\ arrived # <<>>
    /\ Awaited(trace) = {}
    /\ arrived' = Tail(arrived)

\* the event loop keeps taking turns; nothing makes a handler settle
SpecLoop ==
    /\ InitLoop
    /\ [][NextLoop]_vars
    /\ WF_arrived(turn)

(***************************************************************************)
(* Properties of the dispatcher.                                           *)
(***************************************************************************)
\* what a scan of the whole route list with the tie-break selects, no cache
\* involved
FullScan(routes, request) ==
    LET m == MatchedRoutes(routes, request)
    IN  IF Len(m) = 0 THEN [kind |-> "default"]
        ELSE Resolved(RouteToUse(m, request.url))

NonUpgrade(i) == trace[i].request.upgrade # "websocket"

SameTarget(i, j) ==
    /\ trace[i].request.url = trace[j].request.url
    /\ trace[i].request.method = trace[j].request.method

\* C1: for every sequence of non-upgrade requests and every cache capacity,
\* the route and params the dispatcher selects for a request are those a
\* cache-less full scan with the tie-break selects, and two resolutions of
\* the same (url, method) select the same pair, evicted in between or not.
C1_CacheTransparent ==
    /\ \A i \in 1..Len(trace) :
          NonUpgrade(i) => trace[i].resolution = FullScan(Routes, trace[i].request)
    /\ \A i, j \in 1..Len(trace) :
          (NonUpgrade(i) /\ NonUpgrade(j) /\ SameTarget(i, j))
              => trace[i].resolution = trace[j].resolution

\* a capacity-1 cache: A resolved, B resolved (which evicts A), A resolved again
C1_Witness ==
    /\ maxSize = 1
    /\ Len(trace) = 3
    /\ \A i \in 1..3 : NonUpgrade(i) /\ trace[i].resolution.kind = "route"
    /\ SameTarget(1, 3)
    /\ ~SameTarget(1, 2)
    /\ Len(routeCache) = 1
    /\ routeCache[1].key.url = trace[3].request.url

\* the trailing segment of the request path
TrailingSegment(request) == PathBase(UrlPathname(request.url))

\* the matches whose pattern ends in the request's trailing path segment
TrailingEqual(m, request) ==
    {k \in 1..Len(m) : PathBase(m[k].route.pattern) = TrailingSegment(request)}

\* C2: when two routes are eligible for a request and exactly one of them
\* has a pattern whose trailing segment equals the request's trailing path
\* segment, that route is selected, whichever comes first in scan order.
C2_TrailingSegmentPreferred ==
    \A i \in 1..Len(trace) :
        LET m == MatchedRoutes(Routes, trace[i].request)
            eq == TrailingEqual(m, trace[i].request)
        IN  (NonUpgrade(i) /\ Len(m) = 2 /\ Cardinality(eq) = 1)
               => \A k \in eq : trace[i].resolution = Resolved(m[k])

\* the record of the request handled by a step that handles one
Latest == trace'[Len(trace')]

Handles == Len(trace') = Len(trace) + 1

\* C3: a non-upgrade request that matches no route gets the default
\* handler's result, and the resolution cache is left as it was: nothing
\* inserted, nothing evicted, recency unchanged.
C3_NoMatchLeavesCache ==
    [][(Handles /\ Latest.request.upgrade # "websocket"
                /\ MatchedRoutes(Routes, Latest.request) = <<>>)
          => /\ Latest.calls = <<Invocation(defaultHandler, <<Latest.request>>)>>
             /\ Latest.result = ResultOf(Latest.calls[1], "response")
             /\ routeCache' = routeCache]_vars

\* an unmatched request handled while the cache holds an entry
C3_Witness ==
    /\ Len(trace) >= 2
    /\ trace[Len(trace) - 1].resolution.kind = "route"
    /\ NonUpgrade(Len(trace))
    /\ trace[Len(trace)].resolution.kind = "default"
    /\ trace[Len(trace)].calls[1].handler = defaultHandler
    /\ Len(routeCache) >= 1

RouteHandlers == {Routes[k].handler : k \in 1..Len(Routes)}

\* C5: every non-upgrade request leads to exactly one handler invocation,
\* of one route handler or of the default handler, and the dispatcher
\* returns that invocation's result.
C5_ExactlyOneHandler ==
    \A i \in 1..Len(trace) :
        NonUpgrade(i) =>
            /\ Len(trace[i].calls) = 1
            /\ trace[i].calls[1].handler \in RouteHandlers \cup {defaultHandler}
            /\ trace[i].result = ResultOf(trace[i].calls[1], "response")

\* one request answered by a route handler and one by the default handler
C5_Witness ==
    /\ \E i \in 1..Len(trace) :
          NonUpgrade(i) /\ trace[i].calls[1].handler \in RouteHandlers
    /\ \E i \in 1..Len(trace) :
          NonUpgrade(i) /\ trace[i].calls[1].handler = defaultHandler

\* C6: a request whose upgrade header is websocket is never route-matched,
\* whatever its url and method: no handler is invoked, the route list is
\* not scanned, the cache is neither read nor modified, and the connection
\* goes to the event fan-out.
C6_UpgradeBypassesRouting ==
    [][(Handles /\ Latest.request.upgrade = "websocket")
          => /\ Latest.calls = <<>>
             /\ ~Latest.scanned
             /\ Latest.cacheReads = 0
             /\ Latest.resolution = NoResolution
             /\ routeCache' = routeCache
             /\ heap' = heap
             /\ Len(sockets') = Len(sockets) + 1
             /\ Latest.result = [upgradeResponse |-> Len(sockets')]]_vars

\* an upgrade request for a url and method that a route matches, handled
\* while the cache holds an entry
C6_Witness ==
    /\ Len(trace) >= 2
    /\ trace[Len(trace) - 1].resolution.kind = "route"
    /\ trace[Len(trace)].request.upgrade = "websocket"
    /\ trace[Len(trace)].request.method = "POST"
    /\ MatchedRoutes(Routes, trace[Len(trace)].request) # <<>>
    /\ Len(sockets) = 1

(***************************************************************************)
(* Properties of the method filter (SpecMethods).                          *)
(***************************************************************************)
\* the module of a MethodTrees tree, its path and the pattern of its routes
TheModule == tree[1].entries[1].entries[1]

TheModulePath == fsRouteDir \o <<"/", "api", "/", "blog", "/">> \o IdTs

ThePattern == <<"/", "api", "/", "blog", "/", ":", "id">>

\* the module exports a handler for method m
Answers(exports, m) ==
    \/ m \in Range(MethodType) /\ m \in exports
    \/ m = "GET" /\ "default" \in exports

\* C4: a module answers exactly the methods it exports: a request (path, M)
\* whose path matches the module's pattern resolves to the module's handler
\* for M iff the module exports M among GET, POST, PUT, DELETE, PATCH, or M
\* is GET and it has a default export; otherwise, no other route matching,
\* the request goes to the default handler.  A [id] module exporting only
\* POST resolves POST /api/blog/42 with params {id: "42"}.
C4_AnswersExportedMethods ==
    \A i \in 1..Len(trace) :
        LET request == trace[i].request
            res == trace[i].resolution
        IN  URLPatternExec(ThePattern, request.url).matched =>
               IF Answers(TheModule.exports, request.method)
               THEN /\ res.kind = "route"
                    /\ res.route.handler.module = TheModulePath
                    /\ res.route.handler.export \in TheModule.exports
                    /\ res.route.handler.export \in
                          (IF request.method = "GET" THEN {"GET", "default"}
                           ELSE {request.method})
                    /\ res.params = [n \in {"id"} |-> <<"42">>]
                    /\ trace[i].calls[1].handler = res.route.handler
               ELSE /\ res.kind = "default"
                    /\ trace[i].calls[1].handler = defaultHandler

\* tests/api/posts/[id].ts: POST is answered by the module, GET is not
C4_Witness ==
    /\ TheModule.exports = {"POST"}
    /\ \E i \in 1..Len(trace) :
          /\ trace[i].request = Request("POST", BlogPath(<<"42">>), NoQuery, "null")
          /\ trace[i].resolution.kind = "route"
          /\ trace[i].resolution.route.handler.export = "POST"
          /\ trace[i].resolution.params["id"] = <<"42">>
    /\ \E i \in 1..Len(trace) :
          /\ trace[i].request = Request("GET", BlogPath(<<"42">>), NoQuery, "null")
          /\ trace[i].resolution.kind = "default"

(***************************************************************************)
(* Properties of the event fan-out (SpecWs).                               *)
(***************************************************************************)
\* the arguments a handler is to get for an event on a socket
HandlerArgs(socket, event) ==
    IF event.isMessageEvent THEN <<socket, event>> ELSE <<socket>>

\* C7: every entry of the event map is attached to every upgraded
\* connection under its event name; each time the transport signals event
\* e on a connection the handler registered under e, and no other, is
\* invoked once, with (connection, message) for a message event and with
\* the connection only otherwise.
C7_EventFanOut ==
    /\ \A s \in 1..Len(sockets) :
          sockets[s].listeners = {[type |-> e, val |-> Ws[e]] : e \in DOMAIN Ws}
    /\ \A g \in 1..Len(signals) :
          LET e == signals[g].event
          IN  signals[g].calls =
                 IF e.type \in DOMAIN Ws
                 THEN {Invocation(Ws[e.type], HandlerArgs(signals[g].socket, e))}
                 ELSE {}

\* tests/api/+ws.ts: open fires its handler on connect, then the message
\* "ping" reaches the message handler with that payload
C7_Witness ==
    /\ DOMAIN Ws = {"open", "close", "message"}
    /\ Len(sockets) >= 1
    /\ Len(signals) = 2
    /\ signals[1].socket = 1 /\ signals[2].socket = 1
    /\ signals[1].event.type = "open"
    /\ signals[1].calls = {Invocation(Ws["open"], <<1>>)}
    /\ signals[2].event = Event("message", "ping")
    /\ \E c \in signals[2].calls :
          /\ c.handler.export = "message"
          /\ c.args[2].data = "ping"
    /\ Cardinality(signals[2].calls) = 1

(***************************************************************************)
(* Properties of route-table construction (SpecBuild).                     *)
(***************************************************************************)
\* a module that loads and is a route module or the event file
IsValid(file) ==
    file.loads /\ (IsRouteModule(file.exports) \/ file.name = WsTs)

\* the tree without the modules that cannot be loaded or are invalid
RECURSIVE ValidOnly(_)
ValidOnly(entries) ==
    IF entries = <<>> THEN <<>>
    ELSE LET e == Head(entries)
         IN  (IF e.isDirectory THEN <<Dir(e.name, ValidOnly(e.entries))>>
              ELSE IF IsValid(e) THEN <<e>>
              ELSE <<>>) \o ValidOnly(Tail(entries))

\* the files below entries, each with the names of the directories that
\* lead to it from the route root
RECURSIVE Modules(_, _)
Modules(entries, dirs) ==
    IF entries = <<>> THEN {}
    ELSE LET e == Head(entries)
         IN  (IF e.isDirectory THEN Modules(e.entries, Append(dirs, e.name))
              ELSE {[file |-> e, dirs |-> dirs]}) \cup Modules(Tail(entries), dirs)

\* /d1/.../dk, and / for no directory
RECURSIVE Chain(_)
Chain(dirs) ==
    IF dirs = <<>> THEN <<>>
    ELSE <<"/">> \o Head(dirs) \o Chain(Tail(dirs))

\* fsRouteDir/d1/.../dk/name
ModulePath(m) == fsRouteDir \o Chain(m.dirs) \o <<"/">> \o m.file.name

PatternsOf(m) ==
    {Routes[k].pattern : k \in {j \in 1..Len(Routes) : Routes[j].handler.module = ModulePath(m)}}

\* C8: a module that cannot be read or loaded, or that has no recognized
\* export and is not the event file, is reported and skipped without
\* aborting construction: the table holds the routes of every valid module
\* and directory around it.
C8_BadModulesSkipped ==
    phase # "new" =>
        /\ phase = "serving"
        /\ Routes = createRoutes(ValidOnly(tree), fsRouteDir, <<>>).res
        /\ Ws = createRoutes(ValidOnly(tree), fsRouteDir, <<>>).wsll

\* C9: an index module compiles to the path of its directory: / at the
\* route root and /d1/.../dk under the directories d1, ..., dk.
C9_IndexIsDirectoryPath ==
    phase = "serving" =>
        \A m \in Modules(tree, <<>>) :
            (m.file.name = IndexTs /\ IsRouteModule(m.file.exports))
               => PatternsOf(m) = {IF m.dirs = <<>> THEN <<"/">> ELSE Chain(m.dirs)}

\* C10: at every depth a [name] module under the directories d1, ..., dk
\* compiles to /d1/.../dk/:name, and to /:name at the route root.
C10_ParamIsChainThenName ==
    phase = "serving" =>
        \A m \in Modules(tree, <<>>) :
            (m.file.name = IdTs /\ IsRouteModule(m.file.exports))
               => PatternsOf(m) = {Chain(m.dirs) \o <<"/", ":", "id">>}

\* C11: with the README's layout and fsRouteDir pointing at the api
\* directory, api/blog/[id].ts is served at /api/blog/:id: the name of the
\* route directory is the first segment of every compiled path.
C11_RouteDirNameIsFirstSegment ==
    (phase = "serving" /\ tree = ReadmeTree) =>
        /\ \E k \in 1..Len(Routes) :
              /\ Routes[k].handler.module = fsRouteDir \o <<"/", "blog", "/">> \o IdTs
              /\ Routes[k].pattern = <<"/", "api", "/", "blog", "/", ":", "id">>
        /\ \A k \in 1..Len(Routes) :
              SubSeq(Routes[k].pattern, 1, 2) = <<"/">> \o PathBase(fsRouteDir)

\* C17: whatever the event file +ws exports, each exported symbol is
\* registered in the event map under its name and the module contributes no
\* route.
C17_EventFileOnlyRegistersEvents ==
    phase = "serving" =>
        \A m \in Modules(tree, <<>>) :
            (m.file.name = WsTs /\ m.dirs = <<>>) =>
                /\ \A evt \in m.file.exports :
                      /\ evt \in DOMAIN Ws
                      /\ Ws[evt] = [module |-> ModulePath(m), export |-> evt]
                /\ PatternsOf(m) = {}

(***************************************************************************)
(* Properties of handlers that fail or stay suspended.                     *)
(***************************************************************************)
\* the handler of request i threw, or the promise it returned was rejected
Failed(i) ==
    \/ "thrown" \in DOMAIN trace[i].result
    \/ /\ "state" \in DOMAIN trace[i].result
       /\ trace[i].result.state = "rejected"

\* the handler of request i returned a promise that has not settled
Suspended(i) ==
    /\ "state" \in DOMAIN trace[i].result
    /\ trace[i].result.state = "pending"

\* the served table run over the given requests by handlers that all
\* return: the cache it ends with and what each request resolved to
RECURSIVE AllSucceed(_, _, _, _)
AllSucceed(requests, cache, hp, socks) ==
    IF requests = <<>>
    THEN [routeCache |-> cache, resolutions |-> <<>>]
    ELSE LET out == Closure(Head(requests), Routes, Ws, cache, maxSize, hp, socks,
                            "response")
             rest == AllSucceed(Tail(requests), out.routeCache, out.heap,
                                out.sockets)
         IN  [routeCache |-> rest.routeCache,
              resolutions |-> <<out.handled.resolution>> \o rest.resolutions]

\* C12: what the dispatch of a request resolved to a route yields is what
\* the one invocation of that route's handler yielded, a thrown error and a
\* rejected promise included, the default handler is not called for it, and
\* the resolutions of all requests and the cache are those of the same
\* requests served by handlers that all return.
C12_FailurePropagates ==
    phase = "serving" =>
        LET replay == AllSucceed([i \in 1..Len(trace) |-> trace[i].request],
                                 <<>>, 0, <<>>)
        IN  /\ \A i \in 1..Len(trace) :
                  trace[i].resolution.kind = "route" =>
                      LET call == Invocation(trace[i].resolution.route.handler,
                                             <<trace[i].request,
                                               trace[i].resolution.params>>)
                      IN  /\ trace[i].calls = <<call>>
                          /\ trace[i].result \in
                                {[response |-> call], [thrown |-> call]} \cup
                                {[promise |-> call, state |-> st] :
                                    st \in {"pending", "fulfilled", "rejected"}}
            /\ \A i \in 1..Len(trace) : trace[i].resolution = replay.resolutions[i]
            /\ routeCache = replay.routeCache

\* a handler threw, another one's promise was rejected, and the request of
\* the first came again and was answered by the same route
C12_Witness ==
    /\ Len(trace) = 3
    /\ "thrown" \in DOMAIN trace[1].result
    /\ Failed(2) /\ "promise" \in DOMAIN trace[2].result
    /\ trace[3].request = trace[1].request
    /\ trace[3].resolution = trace[1].resolution
    /\ trace[3].resolution.kind = "route"
    /\ "response" \in DOMAIN trace[3].result

(***************************************************************************)
(* Properties of repeated requests and of the tie-break.                   *)
(***************************************************************************)
\* the entries of the cache stored under the (url, method) of request i
EntriesFor(i) ==
    {k \in 1..Len(routeCache) :
        /\ routeCache[k].key.url = trace[i].request.url
        /\ routeCache[k].key.method = trace[i].request.method}

\* C13: once a request has been resolved to a route and nothing has been
\* evicted, a later request with the same (url, method) is a cache hit, is
\* answered without a scan of the route list, and the cache holds one entry
\* for that pair.
C13_RepeatIsCacheHit ==
    \A i, j \in 1..Len(trace) :
        ( /\ i < j
          /\ NonUpgrade(i) /\ NonUpgrade(j)
          /\ SameTarget(i, j)
          /\ trace[i].resolution.kind = "route"
          /\ Len(trace) <= maxSize )
            => /\ trace[j].hit
               /\ ~trace[j].scanned
               /\ Cardinality(EntriesFor(i)) = 1

C20_EarliestTrailingEqualWins ==
    \A i \in 1..Len(trace) :
        LET m == MatchedRoutes(Routes, trace[i].request)
            eq == TrailingEqual(m, trace[i].request)
        IN  (NonUpgrade(i) /\ Cardinality(eq) > 1)
               => trace[i].resolution =
                     Resolved(m[CHOOSE k \in eq : \A l \in eq : k <= l])

(***************************************************************************)
(* Properties of the cache under requests in flight.                       *)
(***************************************************************************)
\* a step that resolves a request to a route by a scan
Inserts == Handles /\ Latest.scanned /\ Latest.resolution.kind = "route"

\* the entry a request resolved to a route is stored under
EntryOf(handled) ==
    [url |-> handled.request.url, method |-> handled.request.method,
     route |-> handled.resolution.route, params |-> handled.resolution.params]

\* an entry of the cache, without the identity of its key array
Stored(e) ==
    [url |-> e.key.url, method |-> e.key.method,
     route |-> e.value.route, params |-> e.value.params]

\* C14: the cache never holds more than its capacity; an insert into a full
\* cache drops exactly the least recently used entry, the head, and adds
\* the new one as most recently used; and a lookup with the key of a
\* resident entry makes that entry the most recently used.
C14_CapacityAndRecency ==
    [][ /\ Len(routeCache') <= maxSize
        /\ (Inserts /\ Len(routeCache) = maxSize) =>
              /\ Len(routeCache') = maxSize
              /\ SubSeq(routeCache', 1, maxSize - 1) = Tail(routeCache)
              /\ Stored(routeCache'[maxSize]) = EntryOf(Latest)
        /\ \A k \in 1..Len(routeCache') :
              LET e == routeCache'[k]
                  got == LruGet(routeCache', e.key)
              IN  /\ got.defined
                  /\ got.value = e.value
                  /\ got.cache =
                        SubSeq(routeCache', 1, k - 1)
                        \o SubSeq(routeCache', k + 1, Len(routeCache'))
                        \o <<e>>
      ]_vars

\* capacity 2: three requests resolved to routes, the entry of the first
\* one dropped, those of the second and third resident in that order
C14_Witness ==
    /\ maxSize = 2
    /\ Len(trace) = 3
    /\ \A i \in 1..3 : trace[i].resolution.kind = "route"
    /\ trace[1].request # trace[2].request
    /\ trace[1].request # trace[3].request
    /\ Len(routeCache) = 2
    /\ Stored(routeCache[1]) = EntryOf(trace[2])
    /\ Stored(routeCache[2]) = EntryOf(trace[3])

\* C15: whatever handlers are suspended, a step of the dispatcher leaves
\* the cache as it was, or adds one entry at the end and, only when the
\* cache was full, drops the head; and every entry a lookup can see is a
\* complete (route, params) pair of the route list for its key.
C15_LookupScanInsertAtomic ==
    [][ /\ \/ routeCache' = routeCache
           \/ /\ Inserts
              /\ Len(routeCache) < maxSize
              /\ routeCache' = Append(routeCache, routeCache'[Len(routeCache')])
           \/ /\ Inserts
              /\ Len(routeCache) = maxSize
              /\ routeCache' = Append(Tail(routeCache), routeCache'[Len(routeCache')])
        /\ Handles => Latest.cacheReads = 1 /\ ~Latest.hit
        /\ \A k \in 1..Len(routeCache') :
              LET e == routeCache'[k]
                  found == URLPatternExec(e.value.route.pattern, e.key.url)
              IN  /\ DOMAIN e.value = {"route", "params"}
                  /\ e.value.route \in Range(Routes)
                  /\ e.value.route.method = e.key.method
                  /\ found.matched
                  /\ e.value.params = found.groups
      ]_vars

\* capacity 1: the handler of the first request is still suspended when a
\* second request is resolved and its entry replaces that of the first
C15_Witness ==
    /\ maxSize = 1
    /\ Len(trace) = 2
    /\ Suspended(1)
    /\ trace[1].resolution.kind = "route"
    /\ trace[2].resolution.kind = "route"
    /\ trace[1].request # trace[2].request
    /\ Len(routeCache) = 1
    /\ Stored(routeCache[1]) = EntryOf(trace[2])

\* the entries of the requests resolved to routes, oldest first
RECURSIVE EntriesOf(_)
EntriesOf(tr) ==
    IF tr = <<>> THEN <<>>
    ELSE (IF Head(tr).resolution.kind = "route"
          THEN <<EntryOf(Head(tr))>> ELSE <<>>) \o EntriesOf(Tail(tr))

\* the last n elements of a sequence
LastOf(q, n) == IF Len(q) <= n THEN q ELSE SubSeq(q, Len(q) - n + 1, Len(q))

\* C16: the entry of every request resolved to a route by a scan is in the
\* cache from the step that invokes its handler on, whether the handler
\* returns, throws, stays suspended or its promise is rejected: the cache
\* holds the entries of the latest such requests, up to its capacity.
C16_StoredBeforeInvocation ==
    phase = "serving" =>
        [k \in 1..Len(routeCache) |-> Stored(routeCache[k])]
            = LastOf(EntriesOf(trace), maxSize)

\* the handler of the first request never completed, that of the second
\* threw, and both entries are resident
C16_Witness ==
    /\ Len(trace) = 2
    /\ trace[1].resolution.kind = "route"
    /\ trace[2].resolution.kind = "route"
    /\ Suspended(1)
    /\ "thrown" \in DOMAIN trace[2].result
    /\ Len(routeCache) = 2
    /\ Stored(routeCache[1]) = EntryOf(trace[1])
    /\ Stored(routeCache[2]) = EntryOf(trace[2])

(***************************************************************************)
(* Progress of the event loop past suspended handlers.                     *)
(***************************************************************************)
\* every request handed to the closure was upgraded or had a handler invoked
AllInvoked ==
    \A i \in 1..Len(trace) : trace[i].upgraded \/ Len(trace[i].calls) = 1

\* C18: with turns of the event loop taken fairly and no handler ever
\* required to settle, whatever requests and events the runtime holds are
\* eventually all handed on: a request to the closure, which upgrades it or
\* invokes a handler for it, an event to the listeners of its socket.
C18_SuspendedNeverBlocks ==
    (arrived # <<>>) ~> (arrived = <<>> /\ AllInvoked)

\* the first request's handler is suspended; after it a request was
\* upgraded and an event on that connection reached its handler
C18_Witness ==
    /\ Len(trace) >= 2
    /\ Suspended(1)
    /\ trace[2].upgraded
    /\ Len(signals) >= 1
    /\ signals[1].calls # {}
    /\ arrived = <<>>

(***************************************************************************)
(* Properties of the event map (SpecBuild).                                *)
(***************************************************************************)
\* the event files of the tree
WsModules == {m \in Modules(tree, <<>>) : m.file.name = WsTs}

\* C21: the event map handed to the dispatcher holds exactly the exported
\* symbols of the event file +ws of the route root, each bound to that
\* module's export, and an event file in a nested directory contributes no
\* event handler and no route, wherever the directory is listed.
C21_EventMapIsRootWsOnly ==
    phase = "serving" =>
        /\ DOMAIN Ws = UNION {m.file.exports : m \in {w \in WsModules : w.dirs = <<>>}}
        /\ \A m \in WsModules :
              IF m.dirs = <<>>
              THEN \A evt \in m.file.exports :
                      Ws[evt] = [module |-> ModulePath(m), export |-> evt]
              ELSE /\ PatternsOf(m) = {}
                   /\ \A evt \in DOMAIN Ws : Ws[evt].module # ModulePath(m)

====
